---- MODULE Spec2Model ----
(***************************************************************************)
(* graphql-police: the webhook pipeline of src/src/index.js (the Koa app)  *)
(* and the GitHub client helpers of src/src/github.js.                     *)
(*                                                                         *)
(* One delivery is one run of the three Koa middlewares.  JavaScript runs  *)
(* a handler without interruption between two awaits, so every action      *)
(* below is one such segment: the awaited API call together with the code  *)
(* that follows it up to the next await.  Deliveries live in slots; the    *)
(* GitHub side (the comments of the pull request) and the module-level     *)
(* state of the process (the authenticated client and the implicit global     *)
(* payloadSha) are shared by all of them.                                  *)
(*                                                                         *)
(* Notes on the source.  index.js:142 lacks the comma after the first      *)
(* property of requestLog; the object literal is read as it is meant.      *)
(* index.js:118 assigns payloadSha, which is declared nowhere: a build     *)
(* that emits sloppy-mode code creates a global shared by all deliveries,  *)
(* a build that emits strict-mode code throws a ReferenceError there.      *)
(* Both outcomes are in the model.  gh.authenticateGithubApp and           *)
(* gh.findBaseCommit are called by index.js and defined by no file of      *)
(* src/, and so is the replacers table; they follow the specification.     *)
(***************************************************************************)
EXTENDS Integers, Sequences, FiniteSets, TLC

VARIABLES
  deliveries,   \* slot -> the request-scoped state of the delivery handled there
  comments,     \* the comments of the pull request on GitHub, oldest first
  ghAuth,       \* installation the module-level client gh is authenticated as
  payloadSha,   \* the implicit global written at index.js:118
  received      \* number of deliveries received so far

vars == <<deliveries, comments, ghAuth, payloadSha, received>>

(***************************** bounds **************************************)
MaxInFlight == 2      \* deliveries handled at the same time
MaxDeliveries == 2    \* deliveries received in one behaviour
MaxFiles == 3         \* files of the head commit
MaxOverlapFiles == 1  \* files of the head commit when deliveries overlap
MaxFilterFiles == 2   \* files of the head commit when the filter is looked at

Slots == 1..MaxInFlight

(************************* program constants *******************************)
GITHUB_PR_OPENED == "opened"
GITHUB_PR_SYNCHRONIZED == "synchronize"
\* A list of actions that lets the closing of a pull request through.
validActionsWithClosed == {GITHUB_PR_OPENED, GITHUB_PR_SYNCHRONIZED, "closed"}

validActions == {GITHUB_PR_OPENED, GITHUB_PR_SYNCHRONIZED}
path == <<".github/graphql-schema-police.yml">>
GITHUB_WEBHOOK_SECRET == "secret"
per_page == 50

Bot == "graphql-police[bot]"
Human == "human"

(*************************** file names ************************************)
\* A file name is the sequence of its characters.
AGql == <<"a", ".", "g", "q", "l">>
BGql == <<"b", ".", "g", "q", "l">>
CGraphql == <<"c", ".", "g", "r", "a", "p", "h", "q", "l">>
OldGql == <<"o", ".", "g", "q", "l">>
PrevGql == <<"p", ".", "g", "q", "l">>
ReadmeMd == <<"r", ".", "m", "d">>
NoName == <<>>

EndsWith(s, suffix) ==
  /\ Len(s) >= Len(suffix)
  /\ SubSeq(s, Len(s) - Len(suffix) + 1, Len(s)) = suffix

\* /.*(.graphql|.gql)$/ : the dots are not escaped, so each stands for any one
\* character; there is no i flag.
FILE_FILTER(filename) ==
  \/ /\ Len(filename) >= 8
     /\ EndsWith(filename, <<"g", "r", "a", "p", "h", "q", "l">>)
  \/ /\ Len(filename) >= 4
     /\ EndsWith(filename, <<"g", "q", "l">>)

filterSchemaFiles(files) == SelectSeq(files, LAMBDA f : FILE_FILTER(f.filename))

(************************** the webhook request ****************************)
\* HMAC-SHA1 is modelled as a collision-free keyed digest of the blob.
signBlob(key, blob) == [prefix |-> "sha1=", key |-> key, digest |-> blob]

\* A comparison that looks at the scheme prefix alone.
bufferEqualsPrefixOnly(a, b) == a.prefix = b.prefix

\* bufferEquals: equal length and equal bytes.
bufferEquals(a, b) == a = b

Keys == {GITHUB_WEBHOOK_SECRET, "forged"}

\* rawBody: JSON text.  json = FALSE is a body JSON.parse rejects.
Payload(json, pr, action, inst, sha) ==
  [json |-> json, pull_request |-> pr, action |-> action,
   installation |-> inst, baseSha |-> sha]

Bodies ==
  { Payload(TRUE, TRUE, GITHUB_PR_OPENED, 1, "p1"),
    Payload(TRUE, TRUE, GITHUB_PR_SYNCHRONIZED, 2, "p2"),
    Payload(TRUE, TRUE, "closed", 1, "p1"),
    Payload(TRUE, FALSE, GITHUB_PR_OPENED, 1, "p1"),
    Payload(FALSE, FALSE, "", 0, "") }

Events == {"pull_request", "push"}

MkHeaders(names, sig, ev) ==
  [n \in names |->
     CASE n = "x-hub-signature" -> sig
       [] n = "x-github-event" -> ev
       [] OTHER -> "present"]

ContentHeaders == {{"content-type"}, {"content-length", "content-type"}}

\* Another body than the one sent: what a signature made for other bytes signs.
OtherBody(body) == CHOOSE b \in Bodies : b # body

Requests ==
  UNION { { [headers |-> MkHeaders(c \cup {"x-github-event", "x-hub-signature"},
                                    signBlob(k, b), ev),
             rawBody |-> body] :
               c \in ContentHeaders, k \in Keys,
               b \in {body, OtherBody(body)}, ev \in Events }
          \cup
          { [headers |-> MkHeaders(c \cup {"x-github-event"}, "", ev),
             rawBody |-> body] :
               c \in ContentHeaders, ev \in Events } : body \in Bodies }

Has(headers, name) == name \in DOMAIN headers

\* The header is present and is the signature of the body under the secret.
SignatureOk(req) ==
  /\ Has(req.headers, "x-hub-signature")
  /\ req.headers["x-hub-signature"] = signBlob(GITHUB_WEBHOOK_SECRET, req.rawBody)

\* Correctly signed pull_request deliveries with a valid action.
PipelineRequests ==
  { r \in Requests :
      /\ "content-length" \in DOMAIN r.headers
      /\ SignatureOk(r)
      /\ r.headers["x-github-event"] = "pull_request"
      /\ r.rawBody.json /\ r.rawBody.pull_request
      /\ r.rawBody.action \in validActions }

(***************************** GitHub side *********************************)
NoComment == [id |-> 0, user |-> "", body |-> <<>>]

\* The fourth argument of findThisBotComment.  A value that was not passed
\* is undefined.
NoBot == [defined |-> FALSE, id |-> ""]
ThisBot(id) == [defined |-> TRUE, id |-> id]

Min(a, b) == IF a < b THEN a ELSE b

\* issues.getComments with per_page and page.
getComments(cs, page) ==
  SubSeq(cs, (page - 1) * per_page + 1, Min(page * per_page, Len(cs)))

hasNextPage(cs, page) == Len(cs) > page * per_page

\* comments.find(comment => comment.user.id === thisBot.id): the callback runs
\* on the first comment of a page that has one, and reading .id of undefined
\* throws a TypeError.
FindOnPage(pageComments, thisBot) ==
  IF pageComments = <<>>
    THEN [thrown |-> FALSE, found |-> NoComment]
  ELSE IF ~thisBot.defined
    THEN [thrown |-> TRUE, found |-> NoComment]
  ELSE LET hits == SelectSeq(pageComments, LAMBDA c : c.user = thisBot.id)
       IN  [thrown |-> FALSE,
            found |-> IF hits = <<>> THEN NoComment ELSE Head(hits)]

(*************************** changed files *********************************)
GhFile(filename, status, changes, previous) ==
  [filename |-> filename, status |-> status, changes |-> changes,
   previous_filename |-> previous]

Files ==
  { GhFile(AGql, "modified", 3, NoName),
    GhFile(BGql, "renamed", 0, PrevGql),
    GhFile(CGraphql, "renamed", 2, OldGql),
    GhFile(ReadmeMd, "modified", 1, NoName) }

\* The lists of at most n of the files: no file name twice.
CommitFilesOf(files, n) ==
  UNION { { fl \in [1..k -> files] :
              \A i, j \in 1..k : i # j => fl[i].filename # fl[j].filename } :
          k \in 0..n }

\* The file lists a commit can have.
CommitFiles(n) == CommitFilesOf(Files, n)

html_url(filename, sha) == <<"blob/", sha, "/">> \o filename

(************************* schema comparison *******************************)
null == <<>>
ParseErrorValue == <<"Syntax Error: Unexpected Name", "1: type Query {{">>
SchemaErrorValue == <<"Cannot read property of undefined">>

BreakingChange(type, description) == [type |-> type, description |-> description]

FieldChanged1 == BreakingChange("FIELD_CHANGED_KIND", <<"Query.a", "changed type from", "String to Int">>)
FieldChanged2 == BreakingChange("FIELD_CHANGED_KIND", <<"Query.b", "changed type from", "Int to String">>)
FieldRemoved1 == BreakingChange("FIELD_REMOVED", <<"Query.c", "was removed">>)
UnknownKind1 == BreakingChange("NEW_KIND", <<"Query.d", "is new">>)

\* What findBreakingChanges can return for two schemas that build.
BreakingLists ==
  { <<>>, <<FieldChanged1>>, <<FieldChanged1, FieldRemoved1, FieldChanged2>>,
    <<UnknownKind1>> }

\* What the try block of index.js:202-206 can throw.
Thrown == {"none", "GraphQLError", "Error"}

\* A try block whose result is kept although the block threw.
compareKeepsFound(thrown, found) ==
  [parseError |-> IF thrown = "GraphQLError" THEN ParseErrorValue ELSE null,
   schemaError |-> IF thrown = "Error" THEN SchemaErrorValue ELSE null,
   breakingChanges |-> found]

\* index.js:198-213: the three locals after the try/catch.
compare(thrown, found) ==
  LET parseError0 == null
      schemaError0 == null
      breakingChanges0 == <<>>
  IN  IF thrown = "none"
        THEN [parseError |-> parseError0, schemaError |-> schemaError0,
              breakingChanges |-> found]
      ELSE IF thrown = "GraphQLError"
        THEN [parseError |-> ParseErrorValue, schemaError |-> schemaError0,
              breakingChanges |-> breakingChanges0]
      ELSE [parseError |-> parseError0, schemaError |-> SchemaErrorValue,
            breakingChanges |-> breakingChanges0]

AnalysisResult(file, url, c) ==
  [file |-> file, url |-> url, schemaError |-> c.schemaError,
   parseError |-> c.parseError, breakingChanges |-> c.breakingChanges]

(*************************** ChangeClassifier ******************************)
\* The kind-to-template mapping imported at index.js:29.
replacers ==
  [t \in {"FIELD_CHANGED_KIND", "FIELD_REMOVED"} |->
     IF t = "FIELD_CHANGED_KIND"
       THEN [title |-> <<"#### Fields that changed type">>,
             from |-> "changed type from", to |-> "changed from"]
       ELSE [title |-> <<"#### Removed fields">>,
             from |-> "was removed", to |-> "has been removed"]]

\* String.prototype.replace with a string pattern: the first occurrence.
RECURSIVE replace(_, _, _)
replace(description, from, to) ==
  IF description = <<>> THEN <<>>
  ELSE IF Head(description) = from THEN <<to>> \o Tail(description)
  ELSE <<Head(description)>> \o replace(Tail(description), from, to)

RECURSIVE RewriteAll(_, _)
RewriteAll(breakingChanges, replacer) ==
  IF breakingChanges = <<>> THEN <<>>
  ELSE <<replace(Head(breakingChanges).description, replacer.from, replacer.to)>>
       \o RewriteAll(Tail(breakingChanges), replacer)

\* index.js:37-47.  replacers[type] of a type without entry is undefined and
\* reading its title throws.
getMessagesForBreakingChanges(breakingChangeType, breakingChanges) ==
  IF breakingChangeType \notin DOMAIN replacers
    THEN [thrown |-> TRUE, messages |-> <<>>]
    ELSE LET replacer == replacers[breakingChangeType]
         IN  [thrown |-> FALSE,
              messages |-> <<replacer.title>> \o RewriteAll(breakingChanges, replacer)]

\* _.groupBy(breakingChanges, 'type'): the keys in first-seen order.
RECURSIVE GroupKeys(_, _)
GroupKeys(breakingChanges, seen) ==
  IF breakingChanges = <<>> THEN <<>>
  ELSE IF Head(breakingChanges).type \in seen
    THEN GroupKeys(Tail(breakingChanges), seen)
  ELSE <<Head(breakingChanges).type>>
       \o GroupKeys(Tail(breakingChanges), seen \cup {Head(breakingChanges).type})

Group(breakingChanges, type) ==
  SelectSeq(breakingChanges, LAMBDA bc : bc.type = type)

\* index.js:275-279 over the keys that are left.
RECURSIVE RenderGroups(_, _, _)
RenderGroups(keys, breakingChanges, commentBody) ==
  IF keys = <<>> THEN [thrown |-> FALSE, commentBody |-> commentBody]
  ELSE LET m == getMessagesForBreakingChanges(Head(keys),
                                              Group(breakingChanges, Head(keys)))
       IN  IF m.thrown
             THEN [thrown |-> TRUE, commentBody |-> commentBody]
             ELSE RenderGroups(Tail(keys), breakingChanges, commentBody \o m.messages)

(***************************** rendering ***********************************)
\* A line is a sequence of pieces of text.
Link(result) == <<"[">> \o result.file \o <<"](">> \o result.url \o <<")">>
\* A file that could not be read is announced as clean.
ErrorHeaderAsClean(result) ==
  <<"### :tada: No breaking changes detected in file: ">> \o Link(result)

ErrorHeader(result) == <<"### :bangbang: Error reading file: ">> \o Link(result)
SyntaxHeader(result) == <<"### :construction: Syntax error in file: ">> \o Link(result)
CleanHeader(result) == <<"### :tada: No breaking changes detected in file: ">> \o Link(result)
BreakingHeader(result) == <<"### :police_car: Breaking changes detected in file: ">> \o Link(result)
BreakingAdvice == <<"Changes you have made will break GraphQL API functionality for our clients.">>
NoBreakingChanges == <<"No breaking changes detected :tada:">>

\* index.js:232-281 from result k on.  "return" is the return of line 252,
\* "throw" an exception that leaves the loop.
RECURSIVE RenderLoop(_, _, _, _)
RenderLoop(analysisResults, k, thisBotComment, commentBody) ==
  IF k > Len(analysisResults)
    THEN [end |-> "ok", commentBody |-> commentBody]
  ELSE
    LET result == analysisResults[k] IN
    IF result.schemaError # null
      THEN RenderLoop(analysisResults, k + 1, thisBotComment,
                      commentBody \o <<ErrorHeader(result), result.schemaError>>)
    ELSE IF /\ thisBotComment = NoComment
            /\ Len(result.breakingChanges) = 0
            /\ result.parseError = null
      THEN [end |-> "return", commentBody |-> commentBody]
    ELSE
      LET afterNoBreaking ==
            IF Len(result.breakingChanges) = 0
              THEN IF result.parseError # null
                     THEN commentBody \o
                          << SyntaxHeader(result),
                             <<result.parseError[1]>>,
                             <<"graphql", result.parseError[2], "end">> >>
                     ELSE commentBody \o <<CleanHeader(result)>>
              ELSE commentBody
          afterHeader ==
            IF Len(result.breakingChanges) # 0
              THEN afterNoBreaking \o <<BreakingHeader(result), BreakingAdvice>>
              ELSE afterNoBreaking
          groups == RenderGroups(GroupKeys(result.breakingChanges, {}),
                                 result.breakingChanges, afterHeader)
      IN  IF groups.thrown
            THEN [end |-> "throw", commentBody |-> groups.commentBody]
            ELSE RenderLoop(analysisResults, k + 1, thisBotComment, groups.commentBody)

\* Array.prototype.join with a newline.
RECURSIVE join(_)
join(lines) ==
  IF lines = <<>> THEN <<>>
  ELSE IF Len(lines) = 1 THEN Head(lines)
  ELSE Head(lines) \o <<"\n">> \o join(Tail(lines))

(************************ the state of a delivery **************************)
NoRequest == [headers |-> MkHeaders({}, "", ""), rawBody |-> Payload(FALSE, FALSE, "", 0, "")]

Idle ==
  [pc |-> "idle",
   req |-> NoRequest,
   bodyOk |-> FALSE,            \* ctx.body = 'Ok' was executed
   status |-> 0,                \* the HTTP status of the response, 0 before it
   exit |-> "",                 \* where the handling ended
   calls |-> <<>>,              \* the calls made through github.js, in order
   baseSha |-> "",              \* base.sha of the payload object
   realBaseSha |-> "pending",   \* what findBaseCommit returned, "" for no sha
   optIn |-> "pending",         \* how the fetch of the opt-in file ended
   listed |-> FALSE,            \* getFilesFromCommit has returned
   thisBotComment |-> NoComment,
   currentPage |-> 1,
   changedFiles |-> <<>>,
   changedSchemaFiles |-> <<>>,
   loggedPayloadSha |-> "",     \* requestLog.base.payloadSha
   i |-> 1,                     \* position of the reduce in changedSchemaFiles
   failed |-> {},               \* positions whose callback ended in the catch
   caught |-> <<>>,             \* the errors that reached the catch of line 222
   errorLog |-> <<>>,           \* what console.error printed at line 224
   analysisResults |-> <<>>,
   commentBody |-> <<>>,
   sent |-> <<>>]               \* body passed to createComment / updateComment

InFlight == { s \in Slots : deliveries[s].pc # "idle" }

\* An exception that no handler catches: Koa answers 500.
Throw(d, where) == [d EXCEPT !.pc = "done", !.status = 500, !.exit = where]

\* A return that ends the middleware chain: 200 once ctx.body is set, else
\* Koa's default 404.
Return(d, where) ==
  [d EXCEPT !.pc = "done", !.status = IF d.bodyOk THEN 200 ELSE 404, !.exit = where]

Call(d, api, p, ref, id) ==
  [d EXCEPT !.calls = Append(@, [api |-> api, path |-> p, ref |-> ref, id |-> id,
                                 inst |-> ghAuth])]

Set(s, d) == deliveries' = [deliveries EXCEPT ![s] = d]

\* What one API request can end in.
Outcomes == {"ok", "404", "error"}

Init ==
  /\ deliveries = [s \in Slots |-> Idle]
  /\ comments \in {<<>>, <<[id |-> 1, user |-> Human, body |-> <<"LGTM">>]>>}
  /\ ghAuth = 0
  /\ payloadSha = ""
  /\ received = 0

(******************************* actions ***********************************)
\* A webhook arrives and takes the first free slot; at most limit deliveries
\* are handled at a time.
Receive(s, limit, requests) ==
  /\ deliveries[s].pc = "idle"
  /\ \A t \in Slots : t < s => deliveries[t].pc # "idle"
  /\ Cardinality(InFlight) < limit
  /\ received < MaxDeliveries
  /\ \E req \in requests : Set(s, [Idle EXCEPT !.pc = "rawBody", !.req = req])
  /\ received' = received + 1
  /\ UNCHANGED <<comments, ghAuth, payloadSha>>

\* index.js:63-76
RawBodyMiddleware(s) ==
  LET d == deliveries[s] IN
  /\ d.pc = "rawBody"
  /\ IF ~Has(d.req.headers, "content-length") \/ ~Has(d.req.headers, "content-type")
       THEN Set(s, Return(d, "no-content-headers"))
     ELSE IF ~d.req.rawBody.json
       THEN Set(s, Throw(d, "json"))
     ELSE Set(s, [d EXCEPT !.pc = "signature"])
  /\ UNCHANGED <<comments, ghAuth, payloadSha, received>>

\* index.js:78-95.  new Buffer(undefined) throws, as ctx.throw(500) does.
SignatureMiddleware(s) ==
  LET d == deliveries[s] IN
  /\ d.pc = "signature"
  /\ IF ~Has(d.req.headers, "x-hub-signature")
       THEN Set(s, Throw(d, "signature"))
     ELSE IF ~bufferEquals(d.req.headers["x-hub-signature"],
                           signBlob(GITHUB_WEBHOOK_SECRET, d.req.rawBody))
       THEN Set(s, Throw(d, "signature"))
     ELSE IF d.req.headers["x-github-event"] = "pull_request"
       THEN Set(s, [d EXCEPT !.bodyOk = TRUE, !.pc = "handler"])
     ELSE Set(s, Return([d EXCEPT !.bodyOk = TRUE], "event"))
  /\ UNCHANGED <<comments, ghAuth, payloadSha, received>>

\* index.js:97-113, up to the call of authenticateGithubApp
PullRequestHandler(s) ==
  LET d == deliveries[s]
      data == d.req.rawBody
  IN
  /\ d.pc = "handler"
  /\ IF ~data.pull_request
       THEN Set(s, Return(d, "no-pull-request"))
     ELSE IF data.action \notin validActions
       THEN Set(s, Return(d, "action"))
     ELSE Set(s, [d EXCEPT !.pc = "authenticateGithubApp", !.baseSha = data.baseSha])
  /\ UNCHANGED <<comments, ghAuth, payloadSha, received>>

\* gh.authenticateGithubApp(data.installation.id), index.js:113: the shared
\* client is authenticated as the installation, or the exchange fails.
authenticateGithubApp(s) ==
  LET d == deliveries[s]
      c == Call(d, "authenticateGithubApp", NoName, "", d.req.rawBody.installation)
  IN
  /\ d.pc = "authenticateGithubApp"
  /\ \/ /\ ghAuth' = d.req.rawBody.installation
        /\ Set(s, [c EXCEPT !.pc = "findBaseCommit"])
     \/ /\ Set(s, Throw(c, "authenticate-error"))
        /\ UNCHANGED ghAuth
  /\ UNCHANGED <<comments, payloadSha, received>>

\* gh.findBaseCommit(owner, repo, number): the sha of the merge base, or no
\* sha ("") when none can be determined.
findBaseCommit == {"m", ""}

\* index.js:115-122
ResolveBase(s) ==
  LET d == deliveries[s]
      c == Call(d, "findBaseCommit", NoName, "", 0)
  IN
  /\ d.pc = "findBaseCommit"
  /\ \/ \E realBaseSha \in findBaseCommit \ {""} :
          /\ payloadSha' = d.baseSha
          /\ Set(s, [c EXCEPT !.realBaseSha = realBaseSha, !.baseSha = realBaseSha,
                               !.pc = "optIn"])
     \/ \E realBaseSha \in findBaseCommit \ {""} :
          /\ Set(s, Throw([c EXCEPT !.realBaseSha = realBaseSha], "payloadSha-error"))
          /\ UNCHANGED payloadSha
     \/ /\ "" \in findBaseCommit
        /\ Set(s, Return([c EXCEPT !.realBaseSha = ""], "no-base"))
        /\ UNCHANGED payloadSha
     \/ /\ Set(s, Throw(c, "base-error"))
        /\ UNCHANGED payloadSha
  /\ UNCHANGED <<comments, ghAuth, received>>

\* A probe whose catch block does not return.
OptInProbeWithoutReturn(s) ==
  LET d == deliveries[s]
      c == Call(d, "getFileContent", path, d.baseSha, 0)
  IN
  /\ d.pc = "optIn"
  /\ \E outcome \in Outcomes :
       Set(s, [c EXCEPT !.optIn = outcome, !.pc = "findThisBotComment",
                        !.currentPage = 1])
  /\ UNCHANGED <<comments, ghAuth, payloadSha, received>>

\* index.js:124-133
OptInProbe(s) ==
  LET d == deliveries[s]
      c == Call(d, "getFileContent", path, d.baseSha, 0)
  IN
  /\ d.pc = "optIn"
  /\ \E outcome \in Outcomes :
       IF outcome = "ok"
         THEN Set(s, [c EXCEPT !.optIn = outcome, !.pc = "findThisBotComment",
                               !.currentPage = 1])
         ELSE Set(s, Return([c EXCEPT !.optIn = outcome], "no-opt-in"))
  /\ UNCHANGED <<comments, ghAuth, payloadSha, received>>

\* index.js:135 and github.js:65-89: one page of the scan.  The call passes
\* owner, repo and number, so thisBot is undefined.
findThisBotComment(s) ==
  LET d == deliveries[s]
      c == Call(d, "getComments", NoName, "", d.currentPage)
      r == FindOnPage(getComments(comments, d.currentPage), NoBot)
  IN
  /\ d.pc = "findThisBotComment"
  /\ \/ IF r.thrown
          THEN Set(s, Throw(c, "lookup-type-error"))
        ELSE IF r.found = NoComment /\ hasNextPage(comments, d.currentPage)
          THEN Set(s, [c EXCEPT !.currentPage = @ + 1])
        ELSE Set(s, [c EXCEPT !.thisBotComment = r.found, !.pc = "getFilesFromCommit"])
     \/ Set(s, Throw(c, "lookup-error"))
  /\ UNCHANGED <<comments, ghAuth, payloadSha, received>>

\* index.js:137-171
getFilesFromCommit(s, commitFiles) ==
  LET d == deliveries[s]
      c == Call(d, "getFilesFromCommit", NoName, "head", 0)
  IN
  /\ d.pc = "getFilesFromCommit"
  /\ \/ \E changedFiles \in commitFiles :
          LET changedSchemaFiles == filterSchemaFiles(changedFiles)
              logged == [c EXCEPT !.listed = TRUE,
                                  !.changedFiles = changedFiles,
                                  !.changedSchemaFiles = changedSchemaFiles,
                                  !.loggedPayloadSha = payloadSha]
          IN  IF Len(changedSchemaFiles) = 0
                THEN Set(s, Return(logged, "no-schema-files"))
                ELSE Set(s, [logged EXCEPT !.pc = "fetchOriginal", !.i = 1])
     \/ Set(s, Throw(c, "files-error"))
  /\ UNCHANGED <<comments, ghAuth, payloadSha, received>>

\* The reduce callback returns arr: the next file, or the code after the reduce.
NextFile(d) ==
  IF d.i = Len(d.changedSchemaFiles)
    THEN [d EXCEPT !.pc = "reconcile"]
    ELSE [d EXCEPT !.pc = "fetchOriginal", !.i = @ + 1]

\* A catch around the whole reduce: the first failure ends the analysis.
CatchEndsTheReduce(d, code, message) ==
  [d EXCEPT !.failed = @ \cup {d.i}, !.pc = "reconcile"]

\* A catch that prints whatever it catches.
LoggedAlways(code, message) == TRUE

\* index.js:223: the condition under which the catch prints the error.
Logged(code, message) ==
  code # 404 /\ message # "Schema file renamed, but no changes detected."

\* index.js:222-226
Catch(d, code, message) ==
  LET f == [d EXCEPT !.failed = @ \cup {d.i},
                     !.caught = Append(@, [i |-> d.i, code |-> code,
                                           message |-> message])] IN
  NextFile(IF Logged(code, message)
             THEN [f EXCEPT !.errorLog = Append(@, [file |-> d.changedSchemaFiles[d.i].filename,
                                                     code |-> code])]
             ELSE f)

ErrorCode(outcome) == IF outcome = "404" THEN 404 ELSE 500

\* An original that is always read under the current name.
originalFileNameCurrent(file) == file.filename

\* index.js:176-184: the name the original content is read under.
originalFileName(file) ==
  IF file.status = "renamed" THEN file.previous_filename ELSE file.filename

\* index.js:174-191
FetchOriginal(s) ==
  LET d == deliveries[s]
      file == d.changedSchemaFiles[d.i]
  IN
  /\ d.pc = "fetchOriginal"
  /\ IF file.status = "renamed" /\ file.changes = 0
       THEN Set(s, Catch(d, 0, "Schema file renamed, but no changes detected."))
       ELSE \E outcome \in Outcomes :
              LET c == Call(d, "getFileContent", originalFileName(file), d.baseSha, 0) IN
              IF outcome = "ok"
                THEN Set(s, [c EXCEPT !.pc = "fetchChanged"])
                ELSE Set(s, Catch(c, ErrorCode(outcome), "request failed"))
  /\ UNCHANGED <<comments, ghAuth, payloadSha, received>>

\* A push that puts the result in front.
unshift(arr, result) == <<result>> \o arr

\* index.js:214: arr.push
push(arr, result) == Append(arr, result)

\* index.js:192-221
FetchChanged(s) ==
  LET d == deliveries[s]
      file == d.changedSchemaFiles[d.i]
      c == Call(d, "getFileContent", file.filename, "head", 0)
  IN
  /\ d.pc = "fetchChanged"
  /\ \E outcome \in Outcomes :
       IF outcome = "ok"
         THEN \E thrown \in Thrown, found \in BreakingLists :
                Set(s, NextFile([c EXCEPT !.analysisResults =
                       push(@, AnalysisResult(file.filename,
                                              html_url(file.filename, "head"),
                                              compare(thrown, found)))]))
         ELSE Set(s, Catch(c, ErrorCode(outcome), "request failed"))
  /\ UNCHANGED <<comments, ghAuth, payloadSha, received>>

\* A decision that never creates.
DecisionAlwaysUpdate(thisBotComment) == "updateComment"

\* index.js:290: which mutation the handler goes for.
Decision(thisBotComment) ==
  IF thisBotComment # NoComment THEN "updateComment" ELSE "createComment"

\* An update that sends the assembled lines as they are.
UpdateBodyAsAssembled(commentBody) == commentBody

\* index.js:291-294
UpdateBody(commentBody) ==
  IF Len(commentBody) = 0 THEN <<NoBreakingChanges>> ELSE commentBody

EditComment(cs, id, body) ==
  [k \in 1..Len(cs) |-> IF cs[k].id = id THEN [cs[k] EXCEPT !.body = body] ELSE cs[k]]

\* index.js:230-303
Reconcile(s) ==
  LET d == deliveries[s]
      r == RenderLoop(d.analysisResults, 1, d.thisBotComment, <<>>)
  IN
  /\ d.pc = "reconcile"
  /\ IF r.end = "return"
       THEN Set(s, Return(d, "clean")) /\ UNCHANGED comments
     ELSE IF r.end = "throw"
       THEN Set(s, Throw(d, "render-error")) /\ UNCHANGED comments
     ELSE IF Decision(d.thisBotComment) = "updateComment"
       THEN LET commentBody == UpdateBody(r.commentBody)
                c == [Call(d, "updateComment", NoName, "", d.thisBotComment.id)
                        EXCEPT !.commentBody = commentBody, !.sent = join(commentBody)]
            IN  \/ /\ comments' = EditComment(comments, d.thisBotComment.id, c.sent)
                   /\ Set(s, Return(c, "reconciled"))
                \/ /\ Set(s, Throw(c, "mutation-error"))
                   /\ UNCHANGED comments
     ELSE LET c == [Call(d, "createComment", NoName, "", 0)
                      EXCEPT !.commentBody = r.commentBody, !.sent = join(r.commentBody)]
          IN  \/ /\ comments' = Append(comments,
                                        [id |-> Len(comments) + 1, user |-> Bot,
                                         body |-> c.sent])
                 /\ Set(s, Return(c, "reconciled"))
              \/ /\ Set(s, Throw(c, "mutation-error"))
                 /\ UNCHANGED comments
  /\ UNCHANGED <<ghAuth, payloadSha, received>>

\* The response is sent and the request-scoped state is dropped.
Close(s) ==
  /\ deliveries[s].pc = "done"
  /\ Set(s, Idle)
  /\ UNCHANGED <<comments, ghAuth, payloadSha, received>>

Pipeline(s, maxFiles) ==
  \/ RawBodyMiddleware(s)
  \/ SignatureMiddleware(s)
  \/ PullRequestHandler(s)
  \/ authenticateGithubApp(s)
  \/ ResolveBase(s)
  \/ OptInProbe(s)
  \/ findThisBotComment(s)
  \/ getFilesFromCommit(s, CommitFiles(maxFiles))
  \/ FetchOriginal(s)
  \/ FetchChanged(s)
  \/ Reconcile(s)
  \/ Close(s)

\* Deliveries handled one after the other.
Next ==
  \E s \in Slots :
    \/ Receive(s, 1, Requests)
    \/ Pipeline(s, MaxFiles)

Spec == Init /\ [][Next]_vars

\* Deliveries of the pipeline whose handling overlaps.
NextOverlap ==
  \E s \in Slots :
    \/ Receive(s, MaxInFlight, PipelineRequests)
    \/ Pipeline(s, MaxOverlapFiles)

SpecOverlap == Init /\ [][NextOverlap]_vars

(***************************************************************************)
(* The code after the reduce (index.js:230-303) on its own: a delivery     *)
(* that stands at line 230 with any analysis results and with or without   *)
(* a bot comment in thisBotComment.                                        *)
(***************************************************************************)
ExistingBotComment == [id |-> 1, user |-> Bot, body |-> <<"earlier verdict">>]

AnalysedFiles == { f \in Files : FILE_FILTER(f.filename) /\ ~(f.status = "renamed" /\ f.changes = 0) }

Results ==
  { AnalysisResult(f.filename, html_url(f.filename, "head"), compare(thrown, found)) :
      f \in AnalysedFiles, thrown \in Thrown, found \in BreakingLists }

ResultLists(n) ==
  UNION { { rl \in [1..k -> Results] :
              \A i, j \in 1..k : i # j => rl[i].file # rl[j].file } :
          k \in 0..n }

InitReconcile ==
  /\ comments \in {<<>>, <<ExistingBotComment>>}
  /\ \E analysisResults \in ResultLists(MaxFiles) :
       deliveries =
         [s \in Slots |->
            IF s = 1
              THEN [Idle EXCEPT !.pc = "reconcile",
                                !.bodyOk = TRUE,
                                !.thisBotComment =
                                   IF comments = <<>> THEN NoComment ELSE comments[1],
                                !.analysisResults = analysisResults]
              ELSE Idle]
  /\ ghAuth = 1
  /\ payloadSha = "p1"
  /\ received = 1

NextReconcile == \E s \in Slots : Reconcile(s) \/ Close(s)

SpecReconcile == InitReconcile /\ [][NextReconcile]_vars

(***************************************************************************)
(* The handler from the listing of the head commit on (index.js:137-303),  *)
(* over file names that tell the patterns of FILE_FILTER apart: letters of *)
(* either case, and names that end in the extension without a dot.         *)
(***************************************************************************)
SchemaGraphqlUpper ==
  <<"S", "C", "H", "E", "M", "A", ".", "G", "R", "A", "P", "H", "Q", "L">>
NotGql == <<"n", "o", "t", "g", "q", "l">>
XGraphql == <<"x", "g", "r", "a", "p", "h", "q", "l">>

FilterFiles ==
  { GhFile(n, "modified", 1, NoName) :
      n \in {AGql, CGraphql, ReadmeMd, SchemaGraphqlUpper, NotGql, XGraphql} }

InitFilter ==
  /\ comments = <<>>
  /\ \E req \in PipelineRequests :
       deliveries =
         [s \in Slots |->
            IF s = 1
              THEN [Idle EXCEPT !.pc = "getFilesFromCommit",
                                !.req = req,
                                !.bodyOk = TRUE,
                                !.baseSha = "m",
                                !.realBaseSha = "m",
                                !.optIn = "ok"]
              ELSE Idle]
  /\ ghAuth \in {1, 2}
  /\ payloadSha \in {"p1", "p2"}
  /\ received = 1

NextFilter ==
  \E s \in Slots :
    \/ getFilesFromCommit(s, CommitFilesOf(FilterFiles, MaxFilterFiles))
    \/ FetchOriginal(s)
    \/ FetchChanged(s)
    \/ Reconcile(s)
    \/ Close(s)

SpecFilter == InitFilter /\ [][NextFilter]_vars

(****************************** the claims *********************************)
Apis(d) == { d.calls[k].api : k \in DOMAIN d.calls }

Mutations(d) ==
  SelectSeq(d.calls, LAMBDA c : c.api \in {"createComment", "updateComment"})

BotComments == { k \in DOMAIN comments : comments[k].user = Bot }

\* C1: a delivery whose X-Hub-Signature header is missing or is not
\* 'sha1=' + HMAC(secret, rawBody) runs no pipeline step: it makes no call
\* through the GitHub client, sends no comment body, and never gets past the
\* signature middleware.
C1_UnsignedRunsNoPipeline ==
  \A s \in Slots :
    LET d == deliveries[s] IN
    (d.pc # "idle" /\ ~SignatureOk(d.req)) =>
      /\ d.calls = <<>>
      /\ d.sent = <<>>
      /\ d.pc \in {"rawBody", "signature", "done"}

\* A forged signature on an otherwise processable pull_request delivery was
\* rejected by the signature middleware.
C1_Witness ==
  \E s \in Slots :
    LET d == deliveries[s] IN
    /\ d.pc = "done" /\ d.exit = "signature" /\ d.status = 500
    /\ Has(d.req.headers, "x-hub-signature")
    /\ d.req.headers["x-github-event"] = "pull_request"
    /\ d.req.rawBody.pull_request /\ d.req.rawBody.action = "opened"

\* C2: the pull request holds at most one comment authored by the bot,
\* whatever deliveries were handled and however they interleaved.  (Counted
\* are the bot comments that have a body, so that a violation is one of two
\* verdicts on the same pull request.)
C2_AtMostOneBotComment ==
  Cardinality({ k \in BotComments : comments[k].body # <<>> }) <= 1

\* C3: a delivery makes at most one comment mutation; createComment only
\* after its own lookup returned no comment, updateComment only on the id of
\* the comment its lookup returned.
C3_OneMutationChosenByLookup ==
  \A s \in Slots :
    LET d == deliveries[s] IN
    /\ Len(Mutations(d)) <= 1
    /\ \A k \in DOMAIN d.calls :
         /\ d.calls[k].api = "createComment" =>
              /\ d.thisBotComment = NoComment
              /\ \E j \in 1..(k - 1) : d.calls[j].api = "getComments"
         /\ d.calls[k].api = "updateComment" =>
              /\ d.thisBotComment # NoComment
              /\ d.calls[k].id = d.thisBotComment.id

\* A delivery created the comment after a lookup that found none.
C3_Witness ==
  \E s \in Slots :
    LET d == deliveries[s] IN
    /\ d.pc = "done" /\ d.exit = "reconciled"
    /\ "getComments" \in Apis(d)
    /\ "createComment" \in Apis(d)
    /\ \E k \in BotComments : comments[k].body = d.sent

\* C6: updateComment is never sent an empty body: when no line was assembled
\* the body is the fixed message, and the comment that is updated never ends
\* up with an empty body.
C6_UpdateNeverBlank ==
  \A s \in Slots :
    LET d == deliveries[s] IN
    "updateComment" \in Apis(d) =>
      /\ d.sent # <<>>
      /\ d.analysisResults = <<>> => d.sent = NoBreakingChanges
      /\ \A k \in DOMAIN comments :
           comments[k].id = d.thisBotComment.id => comments[k].body # <<>>

\* An update with nothing assembled replaced the comment's body by the fixed
\* message.
C6_Witness ==
  \E s \in Slots :
    LET d == deliveries[s] IN
    /\ d.pc = "done" /\ d.exit = "reconciled"
    /\ "updateComment" \in Apis(d)
    /\ d.analysisResults = <<>>
    /\ comments = <<[ExistingBotComment EXCEPT !.body = NoBreakingChanges]>>

\* C7: a correctly signed delivery that is no pull_request event, or whose
\* payload has no pull_request, or whose action is neither opened nor
\* synchronize, makes no call through the GitHub client (not even the
\* authentication) and sends no comment body.
C7_IgnoredDeliveryHasNoEffect ==
  \A s \in Slots :
    LET d == deliveries[s] IN
    ( /\ d.pc # "idle"
      /\ SignatureOk(d.req)
      /\ \/ d.req.headers["x-github-event"] # "pull_request"
         \/ ~d.req.rawBody.pull_request
         \/ d.req.rawBody.action \notin {"opened", "synchronize"} ) =>
      /\ d.calls = <<>>
      /\ d.sent = <<>>
      /\ d.pc \in {"rawBody", "signature", "handler", "done"}

\* A signed pull_request delivery with action closed was answered 200 at
\* the action gate.
C7_Witness ==
  \E s \in Slots :
    LET d == deliveries[s] IN
    /\ d.pc = "done" /\ d.exit = "action" /\ d.status = 200
    /\ SignatureOk(d.req)
    /\ d.req.rawBody.action = "closed"

Last(seq) == seq[Len(seq)]

ContentFetches(d) == SelectSeq(d.calls, LAMBDA c : c.api = "getFileContent")

\* C8: a delivery stopped by a gate mutates no comment.  With no sha from
\* findBaseCommit, or a failed fetch of the opt-in file, it stops there, before
\* any comment lookup or file listing; with no schema file among the changed
\* files it stops after the listing, before any per-file content fetch.
C8_GatesStopBeforeComment ==
  \A s \in Slots :
    LET d == deliveries[s] IN
    /\ d.realBaseSha = "" =>
         /\ d.pc = "done"
         /\ Last(d.calls).api = "findBaseCommit"
         /\ Apis(d) \cap {"getComments", "getFilesFromCommit", "getFileContent"} = {}
         /\ Mutations(d) = <<>>
    /\ d.optIn \in {"404", "error"} =>
         /\ d.pc = "done"
         /\ Last(d.calls).api = "getFileContent" /\ Last(d.calls).path = path
         /\ Apis(d) \cap {"getComments", "getFilesFromCommit"} = {}
         /\ Mutations(d) = <<>>
    /\ (d.listed /\ \A k \in DOMAIN d.changedFiles : ~FILE_FILTER(d.changedFiles[k].filename)) =>
         /\ d.pc = "done"
         /\ Last(d.calls).api = "getFilesFromCommit"
         /\ Len(ContentFetches(d)) = 1
         /\ Mutations(d) = <<>>

\* A delivery listed a commit that changes files but no schema file and
\* stopped there.
C8_Witness ==
  \E s \in Slots :
    LET d == deliveries[s] IN
    /\ d.pc = "done" /\ d.status = 200
    /\ d.listed /\ d.changedFiles # <<>> /\ d.changedSchemaFiles = <<>>
    /\ "getComments" \in Apis(d)

\* C9: once the signature check has passed the response is 200, whatever
\* fails afterwards.
C9_Always200OnceSigned ==
  \A s \in Slots :
    LET d == deliveries[s] IN
    (d.pc = "done" /\ d.bodyOk) => d.status = 200

(* The analysis of the changed schema files is over. *)
ReachedRendering(d) ==
  \/ d.pc = "reconcile"
  \/ d.pc = "done" /\ d.exit \in {"clean", "render-error", "mutation-error", "reconciled"}

Clean(result) ==
  /\ result.breakingChanges = <<>>
  /\ result.parseError = null
  /\ result.schemaError = null

KnownKinds(result) ==
  \A k \in DOMAIN result.breakingChanges :
    result.breakingChanges[k].type \in DOMAIN replacers

Lines(d) == { d.commentBody[k] : k \in DOMAIN d.commentBody }

\* C4: with no prior bot comment, every analysed file that has a breaking
\* change or a parse error gets its block into a comment that the delivery
\* creates, whatever the other files are and wherever the file stands.  (Stated
\* for results whose change kinds all have a template.)
C4_BreakingFileIsReported ==
  \A s \in Slots :
    LET d == deliveries[s] IN
    ( /\ d.pc = "done" /\ ReachedRendering(d)
      /\ d.thisBotComment = NoComment
      /\ \A k \in DOMAIN d.analysisResults : KnownKinds(d.analysisResults[k]) ) =>
      \A k \in DOMAIN d.analysisResults :
        LET result == d.analysisResults[k] IN
        /\ result.breakingChanges # <<>> =>
             "createComment" \in Apis(d) /\ BreakingHeader(result) \in Lines(d)
        /\ (result.parseError # null /\ result.schemaError = null) =>
             "createComment" \in Apis(d) /\ SyntaxHeader(result) \in Lines(d)

\* C5: with no prior bot comment and every analysed file clean, the
\* delivery ends without createComment and without updateComment.
C5_AllCleanNoMutation ==
  \A s \in Slots :
    LET d == deliveries[s] IN
    ( /\ d.pc = "done" /\ ReachedRendering(d)
      /\ d.thisBotComment = NoComment
      /\ \A k \in DOMAIN d.analysisResults : Clean(d.analysisResults[k]) ) =>
      Mutations(d) = <<>>

RenameSkip(file) == file.status = "renamed" /\ file.changes = 0

\* Positions whose content fetch failed.
FetchFailures(d) == { i \in d.failed : ~RenameSkip(d.changedSchemaFiles[i]) }

Positions(d) == 1..Len(d.changedSchemaFiles)

\* The names of the files at the positions outside failed, in list order.
KeptFiles(d) ==
  LET kept == SelectSeq([i \in Positions(d) |-> i], LAMBDA i : i \notin d.failed)
  IN  [k \in 1..Len(kept) |-> d.changedSchemaFiles[kept[k]].filename]

ResultFiles(d) == [k \in DOMAIN d.analysisResults |-> d.analysisResults[k].file]

\* C10 as stated: when the content fetch of a file fails, every other
\* changed schema file is in the results and reported, and the delivery makes
\* its create or update.
C10_FailureStillReachesDecision ==
  \A s \in Slots :
    LET d == deliveries[s] IN
    ( /\ d.pc = "done" /\ ReachedRendering(d)
      /\ FetchFailures(d) # {}
      /\ \A k \in DOMAIN d.analysisResults : KnownKinds(d.analysisResults[k]) ) =>
      /\ ResultFiles(d) = KeptFiles(d)
      /\ Mutations(d) # <<>>

\* C10 amended: a failure while analysing one file removes that file alone
\* from the results.  After the reduce the results are, in list order, the
\* files whose own callback did not fail, each of them fetched at the head;
\* a failure never ends the delivery, which goes on to the rendering loop.
C10_FailureRemovesOnlyThatFile ==
  \A s \in Slots :
    LET d == deliveries[s] IN
    /\ ReachedRendering(d) =>
         /\ ResultFiles(d) = KeptFiles(d)
         /\ \A k \in DOMAIN d.analysisResults :
              \E c \in DOMAIN d.calls :
                /\ d.calls[c].api = "getFileContent"
                /\ d.calls[c].path = d.analysisResults[k].file
                /\ d.calls[c].ref = "head"
    /\ (d.failed # {} /\ d.pc = "done") => ReachedRendering(d)

\* The first of two schema files failed at its content fetch; the second
\* was analysed and its breaking changes were commented.
C10_Witness ==
  \E s \in Slots :
    LET d == deliveries[s] IN
    /\ d.pc = "done" /\ d.exit = "reconciled"
    /\ Len(d.changedSchemaFiles) = 2
    /\ FetchFailures(d) = {1}
    /\ Len(d.analysisResults) = 1
    /\ d.analysisResults[1].file = d.changedSchemaFiles[2].filename
    /\ d.analysisResults[1].breakingChanges # <<>>
    /\ "createComment" \in Apis(d)

Range(seq) == { seq[k] : k \in DOMAIN seq }

\* C11: a changed schema file with status renamed and changes 0 never gets
\* into the analysis results, has neither its current nor its previous name
\* fetched, and leaves no entry in the error log; and the error log holds, in
\* order, exactly the caught failures that are neither a 404 nor this skip.
C11_RenameSkipIsSilent ==
  \A s \in Slots :
    LET d == deliveries[s]
        logged == SelectSeq(d.caught,
                            LAMBDA e : e.code # 404
                                       /\ ~RenameSkip(d.changedSchemaFiles[e.i]))
    IN
    /\ \A i \in Positions(d) :
         LET file == d.changedSchemaFiles[i] IN
         RenameSkip(file) =>
           /\ file.filename \notin Range(ResultFiles(d))
           /\ \A c \in DOMAIN d.calls :
                d.calls[c].api = "getFileContent" =>
                  d.calls[c].path \notin {file.filename, file.previous_filename}
           /\ \A e \in DOMAIN d.errorLog : d.errorLog[e].file # file.filename
    /\ { d.caught[k].i : k \in DOMAIN d.caught } = d.failed
    /\ d.errorLog =
         [k \in 1..Len(logged) |->
            [file |-> d.changedSchemaFiles[logged[k].i].filename,
             code |-> logged[k].code]]

\* A commit with a renamed file without changes, a file whose fetch failed
\* with a 404 and a file whose fetch failed otherwise: the catch ran three
\* times and printed once.
C11_Witness ==
  \E s \in Slots :
    LET d == deliveries[s] IN
    /\ d.pc = "done" /\ ReachedRendering(d)
    /\ Len(d.changedSchemaFiles) = 3
    /\ \E i \in Positions(d) : RenameSkip(d.changedSchemaFiles[i])
    /\ Len(d.caught) = 3
    /\ \E k \in DOMAIN d.caught : d.caught[k].code = 404
    /\ Len(d.errorLog) = 1 /\ d.errorLog[1].code = 500

\* C12: a breaking change whose type has no template fails the section of
\* its file alone: the delivery still makes its create or update, and the
\* blocks of the other analysed files are in the body it sends.  (Stated for
\* deliveries none of whose results is clean, so that the return of line 252
\* is not what ends them, and whose mutation request itself did not fail.)
C12_UnknownKindFailsOnlyItsSection ==
  \A s \in Slots :
    LET d == deliveries[s] IN
    ( /\ d.pc = "done" /\ ReachedRendering(d)
      /\ d.exit # "mutation-error"
      /\ \E k \in DOMAIN d.analysisResults : ~KnownKinds(d.analysisResults[k])
      /\ \A k \in DOMAIN d.analysisResults : ~Clean(d.analysisResults[k]) ) =>
      /\ Mutations(d) # <<>>
      /\ \A k \in DOMAIN d.analysisResults :
           LET result == d.analysisResults[k] IN
           (KnownKinds(result) /\ result.breakingChanges # <<>>) =>
             BreakingHeader(result) \in Lines(d)

FirstBotComment(cs) ==
  LET hits == SelectSeq(cs, LAMBDA c : c.user = Bot)
  IN  IF hits = <<>> THEN NoComment ELSE Head(hits)

PagesRequested(d) ==
  LET gets == SelectSeq(d.calls, LAMBDA c : c.api = "getComments")
  IN  [k \in DOMAIN gets |-> gets[k].id]

\* C13: the lookup, called as the handler calls it, never fails by itself;
\* when it has returned it has requested the pages 1, 2, ... in order and its
\* result is the first comment of the pull request written by the bot, or no
\* comment when there is none.
C13_LookupScansPagesInOrder ==
  \A s \in Slots :
    LET d == deliveries[s] IN
    /\ d.exit # "lookup-type-error"
    /\ d.pc = "getFilesFromCommit" =>
         /\ d.thisBotComment = FirstBotComment(comments)
         /\ PagesRequested(d) = [k \in 1..Len(PagesRequested(d)) |-> k]

\* C14: in every analysis result parseError and schemaError are not both
\* set, and a result with either of them set has no breaking changes.
C14_ErrorsExcludeEachOtherAndChanges ==
  \A s \in Slots :
    \A k \in DOMAIN deliveries[s].analysisResults :
      LET result == deliveries[s].analysisResults[k] IN
      /\ ~(result.parseError # null /\ result.schemaError # null)
      /\ (result.parseError # null \/ result.schemaError # null) =>
           result.breakingChanges = <<>>

\* One delivery analysed a file whose schema did not parse and a file whose
\* comparison failed otherwise; neither result has breaking changes.
C14_Witness ==
  \E s \in Slots :
    LET d == deliveries[s] IN
    /\ ReachedRendering(d)
    /\ \E k \in DOMAIN d.analysisResults : d.analysisResults[k].parseError # null
    /\ \E k \in DOMAIN d.analysisResults : d.analysisResults[k].schemaError # null
    /\ \A k \in DOMAIN d.analysisResults : d.analysisResults[k].breakingChanges = <<>>

\* The block the priority chain gives a result: its header line, then what
\* belongs to it.
ChainBlock(result) ==
  IF result.schemaError # null
    THEN << <<"### :bangbang: Error reading file: ">> \o Link(result),
            result.schemaError >>
  ELSE IF result.parseError # null /\ result.breakingChanges = <<>>
    THEN << <<"### :construction: Syntax error in file: ">> \o Link(result),
            <<result.parseError[1]>>,
            <<"graphql", result.parseError[2], "end">> >>
  ELSE IF result.breakingChanges # <<>>
    THEN << <<"### :police_car: Breaking changes detected in file: ">> \o Link(result),
            BreakingAdvice >>
         \o RenderGroups(GroupKeys(result.breakingChanges, {}),
                         result.breakingChanges, <<>>).commentBody
  ELSE << <<"### :tada: No breaking changes detected in file: ">> \o Link(result) >>

RECURSIVE ChainBody(_)
ChainBody(results) ==
  IF results = <<>> THEN <<>>
  ELSE ChainBlock(Head(results)) \o ChainBody(Tail(results))

\* C15: the body of every comment written for a non-empty result set is,
\* result by result, the one block the priority chain selects: error reading
\* file if schemaError is set; else syntax error if parseError is set and
\* there are no breaking changes; else the breaking-changes block with its
\* per-kind messages; else the no-breaking-changes block.
C15_OneBlockPerFileByPriority ==
  \A s \in Slots :
    LET d == deliveries[s] IN
    (Mutations(d) # <<>> /\ d.analysisResults # <<>>) =>
      /\ d.commentBody = ChainBody(d.analysisResults)
      /\ d.sent = join(d.commentBody)

\* An update wrote the error block of one file and the clean block of another.
C15_Witness ==
  \E s \in Slots :
    LET d == deliveries[s] IN
    /\ d.pc = "done" /\ d.exit = "reconciled"
    /\ "updateComment" \in Apis(d)
    /\ Len(d.analysisResults) = 2
    /\ d.analysisResults[1].schemaError # null
    /\ Clean(d.analysisResults[2])
    /\ Len(d.commentBody) = 3
    /\ \E k \in DOMAIN comments : comments[k].body = d.sent

RECURSIVE IsSubsequence(_, _)
IsSubsequence(a, b) ==
  IF a = <<>> THEN TRUE
  ELSE IF b = <<>> THEN FALSE
  ELSE IF Head(a) = Head(b) THEN IsSubsequence(Tail(a), Tail(b))
  ELSE IsSubsequence(a, Tail(b))

Filenames(files) == [k \in DOMAIN files |-> files[k].filename]

Markers ==
  { "### :bangbang: Error reading file: ",
    "### :construction: Syntax error in file: ",
    "### :police_car: Breaking changes detected in file: ",
    "### :tada: No breaking changes detected in file: " }

\* The header lines of a body, in the order they appear.
HeaderLines(body) == SelectSeq(body, LAMBDA line : Head(line) \in Markers)

\* C16: at every point of a delivery the analysis results are an
\* order-preserving subsequence of the changed schema files, which are one of
\* the changed files of the head commit; and the header lines of a body that
\* is written link, one by one and in the same order, the files of the results.
C16_ResultsKeepFileOrder ==
  \A s \in Slots :
    LET d == deliveries[s] IN
    /\ IsSubsequence(ResultFiles(d), Filenames(d.changedSchemaFiles))
    /\ IsSubsequence(Filenames(d.changedSchemaFiles), Filenames(d.changedFiles))
    /\ (Mutations(d) # <<>> /\ d.analysisResults # <<>>) =>
         LET headers == HeaderLines(d.commentBody) IN
         /\ Len(headers) = Len(d.analysisResults)
         /\ \A k \in DOMAIN headers :
              SubSeq(headers[k], 2, Len(headers[k])) = Link(d.analysisResults[k])

\* Of three changed schema files the second was dropped; the comment that was
\* created reports the first and the third, in that order.
C16_Witness ==
  \E s \in Slots :
    LET d == deliveries[s] IN
    /\ d.pc = "done" /\ d.exit = "reconciled"
    /\ "createComment" \in Apis(d)
    /\ Len(d.changedSchemaFiles) = 3
    /\ d.failed = {2}
    /\ ResultFiles(d) = <<d.changedSchemaFiles[1].filename,
                           d.changedSchemaFiles[3].filename>>
    /\ Len(HeaderLines(d.commentBody)) = 2

UpperCase == <<"A", "C", "E", "G", "H", "L", "M", "P", "Q", "R", "S">>
LowerCase == <<"a", "c", "e", "g", "h", "l", "m", "p", "q", "r", "s">>

ToLowerCase(ch) ==
  IF \E k \in DOMAIN UpperCase : UpperCase[k] = ch
    THEN LowerCase[CHOOSE k \in DOMAIN UpperCase : UpperCase[k] = ch]
    ELSE ch

\* The name ends, letter case aside, in a dot followed by graphql or gql.
HasSchemaSuffix(filename) ==
  LET lower == [k \in DOMAIN filename |-> ToLowerCase(filename[k])] IN
  \/ EndsWith(lower, <<".", "g", "r", "a", "p", "h", "q", "l">>)
  \/ EndsWith(lower, <<".", "g", "q", "l">>)

\* C17: the changed schema files of a delivery are exactly the changed files
\* whose name ends, compared without regard to case, in .graphql or .gql with
\* a literal dot.
C17_FilterIsCaseInsensitiveSuffix ==
  \A s \in Slots :
    LET d == deliveries[s] IN
    d.listed =>
      d.changedSchemaFiles =
        SelectSeq(d.changedFiles, LAMBDA f : HasSchemaSuffix(f.filename))

\* The name a file had at the merge base.
NameAtBase(file) ==
  IF file.status = "renamed" /\ file.changes > 0
    THEN file.previous_filename
    ELSE file.filename

\* C18: every content fetch of a delivery is one of three reads: the opt-in
\* file at the sha findBaseCommit returned, a changed schema file under the
\* name it had at the merge base at that same sha, or a changed schema file
\* under its current name at the head; none uses the base.sha the webhook
\* reported.  The first fetch is the opt-in probe, and every analysed file
\* was read at the merge base under its name there before it was read at the
\* head.
C18_BeforeReadsUseMergeBase ==
  \A s \in Slots :
    LET d == deliveries[s]
        reported == d.req.rawBody.baseSha
        fetches == ContentFetches(d)
        files == Range(d.changedSchemaFiles)
    IN
    /\ \A k \in DOMAIN fetches :
         LET c == fetches[k] IN
         /\ c.ref # reported
         /\ \/ k = 1 /\ c.path = path /\ c.ref = d.realBaseSha
            \/ /\ k > 1 /\ c.ref = d.realBaseSha /\ d.realBaseSha # ""
               /\ \E f \in files : ~RenameSkip(f) /\ c.path = NameAtBase(f)
            \/ /\ k > 1 /\ c.ref = "head"
               /\ \E f \in files : ~RenameSkip(f) /\ c.path = f.filename
    /\ \A r \in DOMAIN d.analysisResults :
         \E f \in files :
           /\ f.filename = d.analysisResults[r].file
           /\ \E j, k \in DOMAIN fetches :
                /\ j < k
                /\ fetches[j].path = NameAtBase(f) /\ fetches[j].ref = d.realBaseSha
                /\ fetches[k].path = f.filename /\ fetches[k].ref = "head"

\* A renamed file with changes was analysed next to a modified one: the
\* first was read at the merge base under its previous name, the second under
\* its own, and the webhook had reported another base sha.
C18_Witness ==
  \E s \in Slots :
    LET d == deliveries[s]
        fetches == ContentFetches(d)
    IN
    /\ ReachedRendering(d)
    /\ d.req.rawBody.baseSha = "p1" /\ d.realBaseSha = "m"
    /\ ResultFiles(d) = <<CGraphql, AGql>>
    /\ \E k \in DOMAIN fetches : fetches[k].path = OldGql /\ fetches[k].ref = "m"
    /\ \E k \in DOMAIN fetches : fetches[k].path = AGql /\ fetches[k].ref = "m"
    /\ \E k \in DOMAIN fetches : fetches[k].path = CGraphql /\ fetches[k].ref = "head"

\* C19: what a delivery reads was written by that delivery: the payloadSha
\* it logs is the base.sha of its own payload.
C19_LogsItsOwnPayloadSha ==
  \A s \in Slots :
    LET d == deliveries[s] IN
    d.listed => d.loggedPayloadSha = d.req.rawBody.baseSha

\* C20: createComment is never called with an empty body.
C20_CreateNeverBlank ==
  \A s \in Slots :
    LET d == deliveries[s] IN
    "createComment" \in Apis(d) => d.sent # <<>>
====
